---- MODULE Spec2Model ----
(***************************************************************************)
(* Model of giacc.py: do_giacc_convert, the GIA container converter.       *)
(* A file is a sequence of bytes (0..255).  The file system holds three    *)
(* paths: "c" (the input container), "tmp" and "tmp2" (destinations).      *)
(* do_giacc_convert is modelled statement by statement; pc is the          *)
(* position inside the call.  Each call stands for one invocation of the   *)
(* tool.                                                                   *)
(***************************************************************************)
EXTENDS Integers, Sequences, FiniteSets, TLC

\* ---------------------------------------------------------------- bounds
MaxChunks == 3
MaxCalls == 2

\* ------------------------------------------------------- program constants
HeaderSize == 20
FooterSize == 4
FILE_LEN_EXCLUDED == 4
HEADER_MAGIC_NUM == 806
FOOTER_MAGIC_NUM == 1657
GIA == 3
GIL == 2
CLASSIC_MODE_TAG == <<32, 1>>
FILENAME_TERMINATOR == <<42, 5>>

\* AssetMode, plus None for a query
AssetMode == {"CLASSIC", "BEYOND"}
None == "NONE"

Paths == {"c", "tmp", "tmp2"}

\* ------------------------------------------------------- byte-level helpers
Min(a, b) == IF a < b THEN a ELSE b

\* struct ">I": big endian uint32
BE32(n) == << (n \div 16777216) % 256, (n \div 65536) % 256, (n \div 256) % 256, n % 256 >>

Unpack32(s, off) == s[off + 1] * 16777216 + s[off + 2] * 65536 + s[off + 3] * 256 + s[off + 4]

\* Header.Struct.pack(*header)
HeaderPack(h) ==
    BE32(h.file_len) \o BE32(h.file_ver) \o BE32(h.magic_num) \o BE32(h.file_type) \o BE32(h.content_len)

\* Header._make(Header.Struct.unpack_from(src, 0))
HeaderUnpack(s) ==
    [file_len |-> Unpack32(s, 0), file_ver |-> Unpack32(s, 4), magic_num |-> Unpack32(s, 8),
     file_type |-> Unpack32(s, 12), content_len |-> Unpack32(s, 16)]

\* Footer._make(Footer.Struct.unpack(src[-4:]))
FooterUnpack(s) == [magic_num |-> Unpack32(s, Len(s) - FooterSize)]

\* Python slice s[a:b] for 0 <= a, 0 <= b (0-based, end exclusive, clamped)
Slice(s, a, b) ==
    LET lo == Min(a, Len(s))
        hi == Min(b, Len(s))
    IN IF lo >= hi THEN <<>> ELSE SubSeq(s, lo + 1, hi)

\* mmap.rfind(sub, start, end): highest index i with s[i:i+len(sub)] = sub and
\* start <= i, i + len(sub) <= end; -1 when there is none
MatchAt(s, sub, i) == \A k \in 1 .. Len(sub) : s[i + k] = sub[k]

RECURSIVE RFindFrom(_, _, _, _)
RFindFrom(s, sub, start, i) ==
    IF i < start THEN -1
    ELSE IF MatchAt(s, sub, i) THEN i
    ELSE RFindFrom(s, sub, start, i - 1)

RFind(s, sub, start, end) == RFindFrom(s, sub, start, end - Len(sub))

\* mmap.resize(n): ftruncate + remap; new bytes are zero
Resize(s, n) ==
    IF n <= Len(s) THEN SubSeq(s, 1, n)
    ELSE s \o [i \in 1 .. (n - Len(s)) |-> 0]

\* mmap.move(dest, src, count): memmove inside the mapping
Move(s, dest, src, count) ==
    [i \in 1 .. Len(s) |->
        IF (i - 1) >= dest /\ (i - 1) < dest + count THEN s[(i - 1) - dest + src + 1] ELSE s[i]]

\* src[at : at + len(b)] = b, and Struct.pack_into(src, at, ...)
WriteAt(s, at, b) ==
    [i \in 1 .. Len(s) |->
        IF (i - 1) >= at /\ (i - 1) < at + Len(b) THEN b[i - at] ELSE s[i]]

\* ------------------------------------------------------- decisions of the code
\* lines 108-115
HeaderValid(h, n) ==
    /\ h.file_len = n - FILE_LEN_EXCLUDED
    /\ h.magic_num = HEADER_MAGIC_NUM
    /\ h.file_type = GIA
    /\ h.content_len = n - HeaderSize - FooterSize

\* line 119
FooterValidMut(f) == TRUE
FooterValid(f) == f.magic_num = FOOTER_MAGIC_NUM

\* line 123
FindTerminatorIndex(s) == RFind(s, FILENAME_TERMINATOR, 0, Len(s) - FooterSize)

\* line 131
HasClassicTag(s, ctag, fterm) ==
    ctag >= HeaderSize /\ Slice(s, ctag, fterm) = CLASSIC_MODE_TAG

\* line 139
IsQuery(to) == to = None

\* line 145
IsNoOpMut(from, to) == FALSE
IsNoOp(from, to) == from = to

\* lines 148 / 174
InPlaceMut(dst) == TRUE
InPlace(dst) == dst = None

\* lines 160-165 (0 stands for the ValueError branch)
LenAdjustment(to) ==
    IF to = "CLASSIC" THEN Len(CLASSIC_MODE_TAG)
    ELSE IF to = "BEYOND" THEN 0 - Len(CLASSIC_MODE_TAG)
    ELSE 0

\* lines 168-170
HeaderReplace(h, adj) ==
    [h EXCEPT !.file_len = h.file_len + adj, !.content_len = h.content_len + adj]

\* ------------------------------------------------------------- input files
TAG == CLASSIC_MODE_TAG
TERM == FILENAME_TERMINATOR
\* a body is a run of chunks: the tag, the terminator, or a lone 2A (the first
\* byte of a terminator, so that partial matches occur)
Chunks == {TAG, TERM, <<42>>}

RECURSIVE BodiesOf(_)
BodiesOf(n) ==
    IF n = 0 THEN {<<>>}
    ELSE LET prev == BodiesOf(n - 1)
         IN prev \cup {b \o c : b \in prev, c \in Chunks}

Zeros(n) == [i \in 1 .. n |-> 0]

\* file_ver is unconstrained: 1, and 10757 = 0x00002A05 whose bytes hold 2A 05
Versions == {1, 10757}

\* Bodies that put 2A 05 across a field boundary: 22 zero bytes with
\* file_ver 0x05000001 (file_len = 0x2A, then 05), and 05 followed by 41 zero
\* bytes (content_len = 0x2A, then 05 as first body byte)
StraddleInputs ==
    { [body |-> Zeros(22), ver |-> 83886081], [body |-> <<5>> \o Zeros(41), ver |-> 1] }

InputShapes ==
    {[body |-> b, ver |-> v] : b \in BodiesOf(MaxChunks), v \in Versions} \cup StraddleInputs

\* How an input deviates from a well-formed container
Damages == {"none", "file_len", "magic_num", "file_type", "content_len", "footer", "short", "empty"}

\* The containers that are damaged: no body, a Beyond body, a Classic body
DamagedShapes == {[body |-> b, ver |-> 1] : b \in {<<>>, TERM, TAG \o TERM, <<0>> \o TAG \o TERM \o <<0>>}}

Inputs ==
    {[shape |-> sh, damage |-> "none"] : sh \in InputShapes}
        \cup {[shape |-> sh, damage |-> dm] : sh \in DamagedShapes, dm \in Damages}

MakeFile(shape, damage) ==
    LET n == HeaderSize + Len(shape.body) + FooterSize
        h == [file_len |-> IF damage = "file_len" THEN n - FILE_LEN_EXCLUDED + 1 ELSE n - FILE_LEN_EXCLUDED,
              file_ver |-> shape.ver,
              magic_num |-> IF damage = "magic_num" THEN HEADER_MAGIC_NUM + 1 ELSE HEADER_MAGIC_NUM,
              file_type |-> IF damage = "file_type" THEN GIL ELSE GIA,
              content_len |-> IF damage = "content_len" THEN n - HeaderSize - FooterSize + 1
                              ELSE n - HeaderSize - FooterSize]
        f == IF damage = "footer" THEN FOOTER_MAGIC_NUM + 1 ELSE FOOTER_MAGIC_NUM
        whole == HeaderPack(h) \o shape.body \o BE32(f)
    IN IF damage = "empty" THEN <<>>
       ELSE IF damage = "short" THEN SubSeq(whole, 1, 10)
       ELSE whole

\* ------------------------------------------------------------------- state
VARIABLES
    files,          \* path -> bytes of the file (<<>> when the path does not exist)
    exists,         \* set of paths that exist
    pc,             \* position inside do_giacc_convert, or the outcome of the call
    src_path, to_mode, dst_path,    \* arguments of the running call
    fd_open,        \* src_fd obtained by os.open has not been closed
    map_open,       \* the mmap object src is open
    header, fterm_index, ctag_index, from_mode,
    header_new, fterm_index_new, len_adjustment, len_old,
    ops,            \* mutating operations of the running call, in order
    start,          \* files and exists when the running call began
    hist            \* finished calls

vars == << files, exists, pc, src_path, to_mode, dst_path, fd_open, map_open,
           header, fterm_index, ctag_index, from_mode,
           header_new, fterm_index_new, len_adjustment, len_old, ops, start, hist >>

NoHeader == [file_len |-> 0, file_ver |-> 0, magic_num |-> 0, file_type |-> 0, content_len |-> 0]

Outcomes == {"done", "rejected", "oserror", "crashed"}

\* the mapped source: with ACCESS_WRITE the mapping is the file
src == files[src_path]

locals == << header, fterm_index, ctag_index, from_mode, header_new, fterm_index_new,
             len_adjustment, len_old >>
args == << src_path, to_mode, dst_path >>

Init ==
    /\ \E in \in Inputs :
          files = [p \in Paths |-> IF p = "c" THEN MakeFile(in.shape, in.damage) ELSE <<>>]
    /\ exists = {"c"}
    /\ pc = "idle"
    /\ src_path = "c" /\ to_mode = None /\ dst_path = None
    /\ fd_open = FALSE /\ map_open = FALSE
    /\ header = NoHeader /\ fterm_index = 0 /\ ctag_index = 0 /\ from_mode = None
    /\ header_new = NoHeader /\ fterm_index_new = 0 /\ len_adjustment = 0 /\ len_old = 0
    /\ ops = <<>>
    /\ start = [files |-> files, exists |-> exists]
    /\ hist = <<>>

\* The call ends with outcome o.  Leaving the with-block (normally, by return,
\* by sys.exit or by an exception) closes the mapping; nothing closes src_fd.
End(o) ==
    /\ pc' = o
    /\ map_open' = FALSE
    /\ hist' = Append(hist, [src |-> src_path, to |-> to_mode, dst |-> dst_path,
                             from |-> from_mode, outcome |-> o,
                             before |-> start.files[src_path]])

Goto(l) == pc' = l /\ UNCHANGED << map_open, hist >>

\* destination offered to a call on path s
NextPath(s) == IF s = "c" THEN "tmp" ELSE "tmp2"

\* One invocation: to-classic / to-beyond (dst "*" is None) or query
Call ==
    /\ pc \in Outcomes \cup {"idle"}
    /\ Len(hist) < MaxCalls
    /\ \E s \in {"c", "tmp"}, t \in AssetMode \cup {None}, d \in {None, "tmp", "tmp2"} :
          /\ d \in {None, NextPath(s)}
          /\ t = None => d = None
          \* a missing input fails at os.open whatever the arguments: query stands for all
          /\ s \notin exists => t = None
          /\ src_path' = s /\ to_mode' = t /\ dst_path' = d
    /\ pc' = "os_open"
    /\ fd_open' = FALSE /\ map_open' = FALSE
    /\ header' = NoHeader /\ fterm_index' = 0 /\ ctag_index' = 0 /\ from_mode' = None
    /\ header_new' = NoHeader /\ fterm_index_new' = 0 /\ len_adjustment' = 0 /\ len_old' = 0
    /\ ops' = <<>>
    /\ start' = [files |-> files, exists |-> exists]
    /\ UNCHANGED << files, exists, hist >>

\* line 103: src_fd = os.open(src_path, open_flags)
OsOpen ==
    /\ pc = "os_open"
    /\ IF src_path \in exists
       THEN fd_open' = TRUE /\ Goto("mmap")
       ELSE fd_open' = fd_open /\ End("oserror")
    /\ UNCHANGED << files, exists, args, locals, ops, start >>

\* line 104: mmap.mmap(src_fd, 0, ...) raises ValueError on an empty file
MmapOpen ==
    /\ pc = "mmap"
    /\ IF Len(src) = 0
       THEN End("crashed")
       ELSE pc' = "header" /\ map_open' = TRUE /\ hist' = hist
    /\ UNCHANGED << files, exists, args, fd_open, locals, ops, start >>

\* lines 106-115: unpack_from raises struct.error on fewer than 20 bytes
ParseHeader ==
    /\ pc = "header"
    /\ IF Len(src) < HeaderSize
       THEN End("crashed") /\ header' = header
       ELSE /\ header' = HeaderUnpack(src)
            /\ IF HeaderValid(header', Len(src)) THEN Goto("footer") ELSE End("rejected")
    /\ UNCHANGED << files, exists, args, fd_open, fterm_index, ctag_index, from_mode,
                    header_new, fterm_index_new, len_adjustment, len_old, ops, start >>

\* lines 117-120
ParseFooter ==
    /\ pc = "footer"
    /\ IF FooterValid(FooterUnpack(src)) THEN Goto("find") ELSE End("rejected")
    /\ UNCHANGED << files, exists, args, fd_open, locals, ops, start >>

\* lines 122-135
DetectMode ==
    /\ pc = "find"
    /\ fterm_index' = FindTerminatorIndex(src)
    /\ IF fterm_index' < 0
       THEN End("rejected") /\ UNCHANGED << ctag_index, from_mode >>
       ELSE /\ IF HasClassicTag(src, fterm_index' - Len(CLASSIC_MODE_TAG), fterm_index')
               THEN from_mode' = "CLASSIC" /\ ctag_index' = fterm_index' - Len(CLASSIC_MODE_TAG)
               ELSE from_mode' = "BEYOND" /\ ctag_index' = fterm_index'
            /\ Goto("detected")
    /\ UNCHANGED << files, exists, args, fd_open, header, header_new, fterm_index_new,
                    len_adjustment, len_old, ops, start >>

\* lines 139-141: query returns
QueryReturn ==
    /\ pc = "detected"
    /\ IsQuery(to_mode)
    /\ End("done")
    /\ UNCHANGED << files, exists, args, fd_open, locals, ops, start >>

\* lines 145-150: same mode, write-back: pass
NoOpPass ==
    /\ pc = "detected"
    /\ ~IsQuery(to_mode) /\ IsNoOp(from_mode, to_mode) /\ InPlace(dst_path)
    /\ End("done")
    /\ UNCHANGED << files, exists, args, fd_open, locals, ops, start >>

\* line 154: open(dst_path, "wb") creates or truncates the destination
NoOpCopyOpen ==
    /\ pc = "detected"
    /\ ~IsQuery(to_mode) /\ IsNoOp(from_mode, to_mode) /\ ~InPlace(dst_path)
    /\ files' = [files EXCEPT ![dst_path] = <<>>]
    /\ exists' = exists \cup {dst_path}
    /\ ops' = Append(ops, [op |-> "dst_open"])
    /\ Goto("noop_write")
    /\ UNCHANGED << args, fd_open, locals, start >>

\* line 155: dst.write(src)
NoOpCopyWrite ==
    /\ pc = "noop_write"
    /\ files' = [files EXCEPT ![dst_path] = files[dst_path] \o src]
    /\ ops' = Append(ops, [op |-> "dst_write"])
    /\ End("done")
    /\ UNCHANGED << exists, args, fd_open, locals, start >>

\* lines 157-172: new header and new terminator index
Plan ==
    /\ pc = "detected"
    /\ ~IsQuery(to_mode) /\ ~IsNoOp(from_mode, to_mode)
    /\ IF to_mode \in AssetMode
       THEN /\ len_adjustment' = LenAdjustment(to_mode)
            /\ header_new' = HeaderReplace(header, len_adjustment')
            /\ fterm_index_new' = fterm_index + len_adjustment'
            /\ IF InPlace(dst_path)
               THEN Goto("inplace")
               ELSE Goto("dst_open")
       ELSE End("crashed") /\ UNCHANGED << len_adjustment, header_new, fterm_index_new >>
    /\ UNCHANGED << files, exists, args, fd_open, header, fterm_index, ctag_index, from_mode,
                    len_old, ops, start >>

\* struct.pack raises struct.error on a field outside 0 .. 2^32 - 1
CanPack(h) ==
    /\ h.file_len >= 0 /\ h.file_ver >= 0 /\ h.magic_num >= 0
    /\ h.file_type >= 0 /\ h.content_len >= 0

\* mmap.move raises ValueError when a range leaves the mapping
CanMove(n, dest, from, count) ==
    /\ dest >= 0 /\ from >= 0 /\ count >= 0
    /\ from + count <= n /\ dest + count <= n

\* ---- write back to the input file (lines 174-190)
\* lines 178-181, to Classic: grow the file first
ResizeGrow ==
    /\ pc = "inplace" /\ to_mode = "CLASSIC"
    /\ len_old' = Len(src)
    /\ files' = [files EXCEPT ![src_path] = Resize(src, len_old' + len_adjustment)]
    /\ ops' = Append(ops, [op |-> "resize", size |-> len_old' + len_adjustment])
    /\ Goto("move_fwd")
    /\ UNCHANGED << exists, args, fd_open, header, fterm_index, ctag_index, from_mode,
                    header_new, fterm_index_new, len_adjustment, start >>

\* line 182: shift everything from the terminator on down
MoveForward ==
    /\ pc = "move_fwd"
    /\ IF CanMove(Len(src), fterm_index_new, fterm_index, len_old - fterm_index)
       THEN /\ files' = [files EXCEPT ![src_path] =
                            Move(src, fterm_index_new, fterm_index, len_old - fterm_index)]
            /\ ops' = Append(ops, [op |-> "move", dest |-> fterm_index_new, from |-> fterm_index,
                                   count |-> len_old - fterm_index, size |-> Len(src)])
            /\ Goto("write_tag")
       ELSE End("crashed") /\ UNCHANGED << files, ops >>
    /\ UNCHANGED << exists, args, fd_open, locals, start >>

\* line 184: write the tag
WriteTag ==
    /\ pc = "write_tag"
    /\ IF ctag_index + Len(CLASSIC_MODE_TAG) <= Len(src)
       THEN /\ files' = [files EXCEPT ![src_path] = WriteAt(src, ctag_index, CLASSIC_MODE_TAG)]
            /\ ops' = Append(ops, [op |-> "write", at |-> ctag_index,
                                   count |-> Len(CLASSIC_MODE_TAG), size |-> Len(src)])
            /\ Goto("pack_header")
       ELSE End("crashed") /\ UNCHANGED << files, ops >>
    /\ UNCHANGED << exists, args, fd_open, locals, start >>

\* lines 178, 187, to Beyond: shift everything from the terminator on up
MoveBackward ==
    /\ pc = "inplace" /\ to_mode = "BEYOND"
    /\ len_old' = Len(src)
    /\ IF CanMove(Len(src), fterm_index_new, fterm_index, len_old' - fterm_index)
       THEN /\ files' = [files EXCEPT ![src_path] =
                            Move(src, fterm_index_new, fterm_index, len_old' - fterm_index)]
            /\ ops' = Append(ops, [op |-> "move", dest |-> fterm_index_new, from |-> fterm_index,
                                   count |-> len_old' - fterm_index, size |-> Len(src)])
            /\ Goto("shrink")
       ELSE End("crashed") /\ UNCHANGED << files, ops >>
    /\ UNCHANGED << exists, args, fd_open, header, fterm_index, ctag_index, from_mode,
                    header_new, fterm_index_new, len_adjustment, start >>

\* line 188: and shrink the file
ResizeShrink ==
    /\ pc = "shrink"
    /\ files' = [files EXCEPT ![src_path] = Resize(src, len_old + len_adjustment)]
    /\ ops' = Append(ops, [op |-> "resize", size |-> len_old + len_adjustment])
    /\ Goto("pack_header")
    /\ UNCHANGED << exists, args, fd_open, locals, start >>

\* line 190: Header.Struct.pack_into(src, 0, *header_new)
PackHeader ==
    /\ pc = "pack_header"
    /\ IF CanPack(header_new) /\ HeaderSize <= Len(src)
       THEN /\ files' = [files EXCEPT ![src_path] = WriteAt(src, 0, HeaderPack(header_new))]
            /\ ops' = Append(ops, [op |-> "pack", at |-> 0, count |-> HeaderSize, size |-> Len(src)])
            /\ End("done")
       ELSE End("crashed") /\ UNCHANGED << files, ops >>
    /\ UNCHANGED << exists, args, fd_open, locals, start >>

\* ---- copy to a distinct destination (lines 192-206)
\* line 194: open(dst_path, "wb")
DstOpen ==
    /\ pc = "dst_open"
    /\ files' = [files EXCEPT ![dst_path] = <<>>]
    /\ exists' = exists \cup {dst_path}
    /\ ops' = Append(ops, [op |-> "dst_open"])
    /\ Goto("dst_header")
    /\ UNCHANGED << args, fd_open, locals, start >>

\* lines 154, 194: open(dst_path, "wb") raises OSError; line 209 reports it
DstOpenError ==
    /\ \/ pc = "dst_open"
       \/ pc = "detected" /\ ~IsQuery(to_mode) /\ IsNoOp(from_mode, to_mode) /\ ~InPlace(dst_path)
    /\ End("oserror")
    /\ UNCHANGED << files, exists, args, fd_open, locals, ops, start >>

\* line 196
DstWriteHeader ==
    /\ pc = "dst_header"
    /\ IF CanPack(header_new)
       THEN /\ files' = [files EXCEPT ![dst_path] = files[dst_path] \o HeaderPack(header_new)]
            /\ ops' = Append(ops, [op |-> "dst_write"])
            /\ Goto("dst_pre")
       ELSE End("crashed") /\ UNCHANGED << files, ops >>
    /\ UNCHANGED << exists, args, fd_open, locals, start >>

\* line 199
DstWritePre ==
    /\ pc = "dst_pre"
    /\ files' = [files EXCEPT ![dst_path] = files[dst_path] \o Slice(src, HeaderSize, ctag_index)]
    /\ ops' = Append(ops, [op |-> "dst_write"])
    /\ IF to_mode = "CLASSIC" THEN Goto("dst_tag") ELSE Goto("dst_rest")
    /\ UNCHANGED << exists, args, fd_open, locals, start >>

\* lines 201-203
DstWriteTag ==
    /\ pc = "dst_tag"
    /\ files' = [files EXCEPT ![dst_path] = files[dst_path] \o CLASSIC_MODE_TAG]
    /\ ops' = Append(ops, [op |-> "dst_write"])
    /\ Goto("dst_rest")
    /\ UNCHANGED << exists, args, fd_open, locals, start >>

\* line 206
DstWriteRest ==
    /\ pc = "dst_rest"
    /\ files' = [files EXCEPT ![dst_path] = files[dst_path] \o Slice(src, fterm_index, Len(src))]
    /\ ops' = Append(ops, [op |-> "dst_write"])
    /\ End("done")
    /\ UNCHANGED << exists, args, fd_open, locals, start >>

Next ==
    \/ Call
    \/ OsOpen
    \/ MmapOpen
    \/ ParseHeader
    \/ ParseFooter
    \/ DetectMode
    \/ QueryReturn
    \/ NoOpPass
    \/ NoOpCopyOpen
    \/ NoOpCopyWrite
    \/ Plan
    \/ ResizeGrow
    \/ MoveForward
    \/ WriteTag
    \/ MoveBackward
    \/ ResizeShrink
    \/ PackHeader
    \/ DstOpen
    \/ DstOpenError
    \/ DstWriteHeader
    \/ DstWritePre
    \/ DstWriteTag
    \/ DstWriteRest

Spec == Init /\ [][Next]_vars

\* ------------------------------------------------------------- properties
\* bytes of the source when the running (or last) call began
before == start.files[src_path]

\* the file the running (or last) call converts into
Output == IF dst_path = None THEN files[src_path] ELSE files[dst_path]

OtherMode(m) == IF m = "CLASSIC" THEN "BEYOND" ELSE "CLASSIC"

BeforeDetection == {"os_open", "mmap", "header", "footer", "find"}

\* two calls have finished and the second has just ended
PairEnded == pc \in Outcomes /\ Len(hist) >= 2
PrevCall == hist[Len(hist) - 1]
LastCall == hist[Len(hist)]

\* C1: converting an accepted container C of mode M to the other mode into tmp
\* and converting tmp back to M into tmp2 yields tmp2 byte-identical to C.
RoundTripOf(a, b) ==
    ( /\ a.src = "c" /\ a.dst = "tmp" /\ a.outcome = "done"
      /\ a.from \in AssetMode /\ a.to = OtherMode(a.from)
      /\ b.src = "tmp" /\ b.dst = "tmp2" /\ b.to = a.from /\ b.outcome # "oserror" )
    => ( b.outcome = "done" /\ "tmp2" \in exists /\ files["tmp2"] = a.before )
C1_RoundTrip == PairEnded => RoundTripOf(PrevCall, LastCall)

\* C2: for the same source and target mode, the source after a write-back
\* convert is byte-identical to the destination of a convert to a distinct path.
InPlaceVsCopyOf(a, b) ==
    ( /\ a.src = "c" /\ a.dst = "tmp" /\ a.outcome = "done" /\ a.to \in AssetMode
      /\ b.src = "c" /\ b.dst = None /\ b.outcome = "done" /\ b.to = a.to )
    => files["c"] = files["tmp"]
C2_InPlaceEqualsCopy == PairEnded => InPlaceVsCopyOf(PrevCall, LastCall)

\* C3: after any successful convert the output of length N has file_len = N-4,
\* content_len = N-24, magic 806, type 3, file_ver unchanged, footer magic 1657.
C3_HeaderConsistency ==
    (pc = "done" /\ to_mode \in AssetMode) =>
        /\ Len(Output) >= HeaderSize + FooterSize
        /\ HeaderUnpack(Output).file_len = Len(Output) - 4
        /\ HeaderUnpack(Output).content_len = Len(Output) - 24
        /\ HeaderUnpack(Output).magic_num = HEADER_MAGIC_NUM
        /\ HeaderUnpack(Output).file_type = GIA
        /\ HeaderUnpack(Output).file_ver = HeaderUnpack(before).file_ver
        /\ FooterUnpack(Output).magic_num = FOOTER_MAGIC_NUM

\* the last 2A 05 of the body [20, N-4), -1 when there is none
AnchorTerminator(s) == RFind(s, FILENAME_TERMINATOR, HeaderSize, Len(s) - FooterSize)

\* the last 2A 05 before the footer, -1 when there is none
LastTerminator(s) == RFind(s, FILENAME_TERMINATOR, 0, Len(s) - FooterSize)

\* C4: after any successful convert with target mode T, the two bytes before
\* the output's anchor terminator (the last 2A 05 before the footer) equal
\* 20 01 if and only if T is Classic.
C4_TagPlacement ==
    (pc = "done" /\ to_mode \in AssetMode /\ LastTerminator(Output) >= 2) =>
        ((Slice(Output, LastTerminator(Output) - 2, LastTerminator(Output)) = CLASSIC_MODE_TAG)
            <=> (to_mode = "CLASSIC"))

\* C5: when the target mode equals the detected mode, a convert to a distinct
\* destination writes a byte-identical copy, and a write-back convert performs
\* no resize, shift or header write.
C5_Idempotence ==
    (pc # "idle" /\ to_mode \in AssetMode /\ from_mode = to_mode) =>
        /\ files[src_path] = before
        /\ dst_path = None => (ops = <<>> /\ files = start.files /\ exists = start.exists)
        /\ dst_path # None =>
              /\ \A i \in 1 .. Len(ops) : ops[i].op \in {"dst_open", "dst_write"}
              /\ pc = "done" => (dst_path \in exists /\ files[dst_path] = before)

C5_Witness ==
    /\ pc = "done" /\ to_mode = "CLASSIC" /\ from_mode = "CLASSIC"
    /\ dst_path = "tmp" /\ files["tmp"] = before /\ Len(before) > HeaderSize + FooterSize

\* an input that fails one of the validations of lines 108-125
FailsValidation(s) ==
    /\ Len(s) >= HeaderSize
    /\ \/ Unpack32(s, 0) # Len(s) - 4
       \/ Unpack32(s, 8) # HEADER_MAGIC_NUM
       \/ Unpack32(s, 12) # GIA
       \/ Unpack32(s, 16) # Len(s) - 24
       \/ Unpack32(s, Len(s) - 4) # FOOTER_MAGIC_NUM
       \/ RFind(s, FILENAME_TERMINATOR, 0, Len(s) - 4) < 0

\* C6: for an input that fails validation the call ends rejected, and at every
\* step the destination has not been created or written and the source has
\* not been resized or written.
C6_RejectionBeforeMutation ==
    (pc # "idle" /\ src_path \in start.exists /\ FailsValidation(before)) =>
        /\ pc \in BeforeDetection \cup {"rejected"}
        /\ files = start.files
        /\ exists = start.exists
        /\ ops = <<>>

C6_Witness ==
    /\ pc = "rejected" /\ to_mode \in AssetMode /\ dst_path = "tmp"
    /\ Len(before) >= HeaderSize + FooterSize
    /\ HeaderValid(HeaderUnpack(before), Len(before))
    /\ Unpack32(before, Len(before) - 4) # FOOTER_MAGIC_NUM
    /\ "tmp" \notin exists

\* C7: the source is unchanged by every query, every convert to a distinct
\* destination and every same-mode write-back; it is mutated only by a
\* write-back convert with a mode change; a query never plans or applies.
C7_SourceFrame ==
    pc # "idle" =>
        /\ files[src_path] # before =>
              /\ to_mode \in AssetMode /\ dst_path = None
              /\ from_mode \in AssetMode /\ from_mode # to_mode
        /\ to_mode = None =>
              /\ pc \in BeforeDetection \cup {"detected"} \cup Outcomes
              /\ ops = <<>> /\ files = start.files /\ exists = start.exists
              /\ header_new = NoHeader

C7_Witness ==
    /\ pc = "done" /\ to_mode \in AssetMode /\ dst_path = "tmp"
    /\ from_mode = OtherMode(to_mode)
    /\ files[src_path] = before /\ files["tmp"] # before /\ Len(ops) > 0

\* C8: the accepted terminator is the last 2A 05 lying within the body
\* [20, N-4); a file whose body holds no 2A 05 is rejected.
C8_TerminatorScanBound ==
    (pc # "idle" /\ from_mode \in AssetMode) =>
        /\ fterm_index >= HeaderSize
        /\ fterm_index = AnchorTerminator(before)

InsertOrder == << "resize", "move", "write", "pack" >>
RemoveOrder == << "move", "resize", "pack" >>
IsPrefix(p, q) == Len(p) <= Len(q) /\ \A i \in 1 .. Len(p) : p[i] = q[i]
OpNames == [i \in 1 .. Len(ops) |-> ops[i].op]

\* C9: a write-back convert with a mode change grows, shifts, writes the tag
\* and rewrites the header (insertion), or shifts, shrinks and rewrites the
\* header (removal); every range lies within the backing length; every byte of
\* [terminatorIndex, oldLength) is at its shifted offset in the final file.
C9_InPlaceEditOrdering ==
    (pc # "idle" /\ dst_path = None /\ to_mode \in AssetMode /\ from_mode = OtherMode(to_mode)) =>
        /\ IsPrefix(OpNames, IF to_mode = "CLASSIC" THEN InsertOrder ELSE RemoveOrder)
        /\ pc = "done" => OpNames = (IF to_mode = "CLASSIC" THEN InsertOrder ELSE RemoveOrder)
        /\ \A i \in 1 .. Len(ops) :
              /\ ops[i].op = "move" =>
                    /\ ops[i].from = fterm_index /\ ops[i].dest = fterm_index + len_adjustment
                    /\ ops[i].count = len_old - fterm_index
                    /\ CanMove(ops[i].size, ops[i].dest, ops[i].from, ops[i].count)
              /\ ops[i].op \in {"write", "pack"} =>
                    ops[i].at >= 0 /\ ops[i].at + ops[i].count <= ops[i].size
              /\ ops[i].op = "write" => ops[i].at = ctag_index
        /\ pc = "done" =>
              /\ Len(files[src_path]) = len_old + len_adjustment
              /\ \A k \in fterm_index .. (len_old - 1) :
                    files[src_path][k + len_adjustment + 1] = before[k + 1]

\* C10: on every exit path (query return, no-op, successful conversion,
\* validation rejection, OSError) both the mapping and the descriptor obtained
\* by os.open have been released when the call ends.
C10_ScopedResourceLifetime ==
    pc \in {"done", "rejected", "oserror"} => (~map_open /\ ~fd_open)

====
